---- MODULE Spec2Model ----
(***************************************************************************)
(* FlashRead: the two backend handlers of backend/server.js (GET /api/news *)
(* and POST /api/ai/enrich) and the news-loading part of the frontend      *)
(* component flashread-frontend/src/App.js.                                *)
(*                                                                         *)
(* JavaScript strings are sequences of one-character strings, so slicing,  *)
(* lower-casing and concatenation are computed.  A JavaScript value is a   *)
(* tagged record: t is the type tag, s the characters of a string (or the  *)
(* decimal digits of a number), a the elements of an array.                *)
(***************************************************************************)
EXTENDS Integers, Sequences, FiniteSets, TLC

\* ------------------------------------------------------------------ bounds
MaxArticles == 2
MaxFetches == 3
MaxTakeaways == 5

\* ------------------------------------------------------- JavaScript values
Undef == [t |-> "undef", s |-> <<>>]
Null == [t |-> "null", s |-> <<>>]
True == [t |-> "bool", s |-> <<"t", "r", "u", "e">>]
False == [t |-> "bool", s |-> <<"f", "a", "l", "s", "e">>]
EmptyObj == [t |-> "obj", s |-> <<>>]
Str(chars) == [t |-> "str", s |-> chars]
Num(digits) == [t |-> "num", s |-> digits]

\* ToBoolean: the values the operators ||, ! and if treat as false
Falsy(v) ==
    \/ v.t \in {"undef", "null"}
    \/ v.t = "bool" /\ v.s = <<"f", "a", "l", "s", "e">>
    \/ v.t = "str" /\ v.s = <<>>
    \/ v.t = "num" /\ v.s = <<"0">>

\* a || d
Or(v, d) == IF Falsy(v) THEN d ELSE v

\* destructuring default: { x = d } = obj
Default(v, d) == IF v.t = "undef" THEN d ELSE v

Min(a, b) == IF a < b THEN a ELSE b

\* Array.prototype.slice(0, n) and String.prototype.slice(0, n)
Slice(seq, n) == SubSeq(seq, 1, Min(Len(seq), n))

Upper == <<"A", "B", "C", "D", "E", "F", "G", "H", "I", "J", "K", "L", "M", "N", "O", "P", "Q", "R", "S", "T", "U", "V", "W", "X", "Y", "Z">>
Lower == <<"a", "b", "c", "d", "e", "f", "g", "h", "i", "j", "k", "l", "m", "n", "o", "p", "q", "r", "s", "t", "u", "v", "w", "x", "y", "z">>

LowerChar(c) ==
    IF \E i \in 1..Len(Upper) : Upper[i] = c
    THEN Lower[CHOOSE i \in 1..Len(Upper) : Upper[i] = c]
    ELSE c

\* String.prototype.toLowerCase
toLowerCase(chars) == [i \in 1..Len(chars) |-> LowerChar(chars[i])]

\* JSON.stringify of an object: a key whose value is undefined is omitted
JsonObject(rec) == [k \in {f \in DOMAIN rec : rec[f].t # "undef"} |-> rec[k]]

\* ------------------------------------------------------------ process.env
EnvNewsKeys == {Undef, Str(<<"k", "1">>)}
EnvProviders == {Undef, Str(<<"O", "p", "e", "n", "A", "I">>), Str(<<"a", "z", "u", "r", "e">>)}
EnvOpenAIKeys == {Undef, Str(<<"s", "k">>)}

VARIABLES env, pc, req, calls, upstream, responses,
          filters, news, loading, mounted, pending, issued, settled

vars == <<env, pc, req, calls, upstream, responses,
          filters, news, loading, mounted, pending, issued, settled>>
backendVars == <<env, pc, req, calls, upstream, responses>>
frontendVars == <<filters, news, loading, mounted, pending, issued, settled>>

NEWS_API_KEY == env.NEWS_API_KEY
AI_PROVIDER == Str(toLowerCase(Or(env.AI_PROVIDER, Str(<<"o", "p", "e", "n", "a", "i">>)).s))
\* faulty variant: the client is built for the provider without looking at the key
openaiClientWithoutKey ==
    IF AI_PROVIDER = Str(<<"o", "p", "e", "n", "a", "i">>)
    THEN [t |-> "obj", s |-> env.OPENAI_API_KEY.s]
    ELSE Null

openaiClient ==
    IF AI_PROVIDER = Str(<<"o", "p", "e", "n", "a", "i">>) /\ ~Falsy(env.OPENAI_API_KEY)
    THEN [t |-> "obj", s |-> env.OPENAI_API_KEY.s]
    ELSE Null

\* ----------------------------------------------------------- GET /api/news
HeadlinesUrl == "https://newsapi.org/v2/top-headlines"
EverythingUrl == "https://newsapi.org/v2/everything"
NewsKeyMissing == "NEWS_API_KEY missing. Add it to backend .env (NEWS_API_KEY=...)."
FetchFailed == "Failed to fetch news"

ErrorResponse(msg) == [status |-> 500, body |-> [kind |-> "error", error |-> msg]]

QueryQ == {Undef, Str(<<>>), Str(<<"c", "l", "i", "m", "a", "t", "e">>)}
QueryCountry == {Undef, Str(<<"u", "s">>)}
QueryCategory == {Undef, Str(<<"T", "E", "C", "H">>)}
QueryFrom == {Undef, Str(<<"2", "0", "2", "4", "-", "0", "1", "-", "0", "1">>)}
QueryTo == {Undef, Str(<<"2", "0", "2", "4", "-", "0", "2", "-", "0", "1">>)}
QueryPageSize == {Undef}
QuerySortBy == {Undef, Str(<<"p", "o", "p", "u", "l", "a", "r", "i", "t", "y">>)}

NoParam == [apiKey |-> Undef, pageSize |-> Undef, page |-> Undef,
            country |-> Undef, category |-> Undef, q |-> Undef,
            from |-> Undef, to |-> Undef, sortBy |-> Undef]

\* lines 47-56: the destructured query with its defaults
Destructure(query) ==
    [q |-> Default(query.q, Str(<<>>)),
     country |-> Default(query.country, Str(<<>>)),
     category |-> Default(query.category, Str(<<>>)),
     from |-> Default(query.from, Str(<<>>)),
     to |-> Default(query.to, Str(<<>>)),
     pageSize |-> Default(query.pageSize, Str(<<"1", "0">>)),
     page |-> Default(query.page, Str(<<"1">>)),
     sortBy |-> Default(query.sortBy, Str(<<"p", "u", "b", "l", "i", "s", "h", "e", "d", "A", "t">>))]

\* lines 65-83: the upstream endpoint and the params sent to it
HeadlinesMode(d) == ~Falsy(d.country) \/ ~Falsy(d.category)

NewsUrl(d) == IF HeadlinesMode(d) THEN HeadlinesUrl ELSE EverythingUrl

\* faulty variant: search mode without the fallback keyword of line 82
NewsParamsNoFallback(d) ==
    LET base == [NoParam EXCEPT !.apiKey = NEWS_API_KEY,
                                !.pageSize = d.pageSize,
                                !.page = d.page]
    IN IF HeadlinesMode(d)
       THEN [base EXCEPT
               !.country = IF ~Falsy(d.country) THEN d.country ELSE Undef,
               !.category = IF ~Falsy(d.category)
                            THEN Str(toLowerCase(d.category.s)) ELSE Undef,
               !.q = IF ~Falsy(d.q) THEN d.q ELSE Undef]
       ELSE [base EXCEPT
               !.q = IF ~Falsy(d.q) THEN d.q ELSE Undef,
               !.from = IF ~Falsy(d.from) THEN d.from ELSE Undef,
               !.to = IF ~Falsy(d.to) THEN d.to ELSE Undef,
               !.sortBy = d.sortBy]

NewsParams(d) ==
    LET base == [NoParam EXCEPT !.apiKey = NEWS_API_KEY,
                                !.pageSize = d.pageSize,
                                !.page = d.page]
    IN IF HeadlinesMode(d)
       THEN [base EXCEPT
               !.country = IF ~Falsy(d.country) THEN d.country ELSE Undef,
               !.category = IF ~Falsy(d.category)
                            THEN Str(toLowerCase(d.category.s)) ELSE Undef,
               !.q = IF ~Falsy(d.q) THEN d.q ELSE Undef]
       ELSE LET p == [base EXCEPT
                        !.q = IF ~Falsy(d.q) THEN d.q ELSE Undef,
                        !.from = IF ~Falsy(d.from) THEN d.from ELSE Undef,
                        !.to = IF ~Falsy(d.to) THEN d.to ELSE Undef,
                        !.sortBy = d.sortBy]
            IN [p EXCEPT !.q = IF Falsy(p.q) THEN Str(<<"n", "e", "w", "s">>) ELSE p.q]

NoUpstream == [kind |-> "none"]

\* lines 45-85: the handler up to its first response or to the await
NewsRequest(query) ==
    /\ pc = "idle"
    /\ req' = [endpoint |-> "news", query |-> query]
    /\ upstream' = NoUpstream
    /\ IF Falsy(NEWS_API_KEY)
       THEN /\ responses' = <<ErrorResponse(NewsKeyMissing)>>
            /\ calls' = <<>>
            /\ pc' = "done"
       ELSE /\ calls' = <<[url |-> NewsUrl(Destructure(query)),
                           params |-> JsonObject(NewsParams(Destructure(query)))]>>
            /\ responses' = <<>>
            /\ pc' = "awaitNews"
    /\ UNCHANGED <<env, frontendVars>>

\* ---- what the news provider can answer

NoSource == [t |-> "undef", s |-> <<>>, name |-> Undef]
NullSource == [t |-> "null", s |-> <<>>, name |-> Undef]
Source(name) == [t |-> "obj", s |-> <<>>, name |-> name]

RawArticle(title, source, author, description, content, url, urlToImage, publishedAt) ==
    [t |-> "obj", title |-> title, source |-> source, author |-> author,
     description |-> description, content |-> content, url |-> url,
     urlToImage |-> urlToImage, publishedAt |-> publishedAt]

\* an element of the articles list that is not an object
NonObject(tag, digits) ==
    [t |-> tag, s |-> digits, title |-> Undef, source |-> NoSource, author |-> Undef,
     description |-> Undef, content |-> Undef, url |-> Undef,
     urlToImage |-> Undef, publishedAt |-> Undef]

\* every combination of present and absent fields
UpstreamRecords ==
    {RawArticle(ti, so, au, de, co, ur, im, pu) :
        ti \in {Undef, Str(<<"T">>)},
        so \in {NoSource, Source(Str(<<"B", "B", "C">>))},
        au \in {Undef, Str(<<"A", "n", "n">>)},
        de \in {Undef, Str(<<"D">>)},
        co \in {Undef, Str(<<"C">>)},
        ur \in {Undef, Str(<<"h", "t", "t", "p", ":", "/", "/", "a">>)},
        im \in {Undef, Str(<<"h", "t", "t", "p", ":", "/", "/", "i">>)},
        pu \in {Undef, Str(<<"2", "0", "2", "4", "-", "0", "1", "-", "0", "1", "T", "0", "0", ":", "0", "0", ":", "0", "0", "Z">>)}}

\* records with falsy or otherwise odd fields, two of them with the same url
SampleRecords ==
    {RawArticle(Str(<<>>), NullSource, Null, Null, Str(<<>>), Str(<<"h", "t", "t", "p", ":", "/", "/", "a">>), Null, Null),
     RawArticle(Str(<<"T">>), Source(Undef), Str(<<"A", "n", "n">>), Str(<<"D">>), Str(<<"C">>),
                Str(<<"h", "t", "t", "p", ":", "/", "/", "a">>), Str(<<"h", "t", "t", "p", ":", "/", "/", "i">>), Str(<<"2", "0", "2", "4", "-", "0", "1", "-", "0", "1", "T", "0", "0", ":", "0", "0", ":", "0", "0", "Z">>)),
     RawArticle(Str(<<"U">>), Source(Str(<<>>)), Undef, Undef, Undef,
                Str(<<"h", "t", "t", "p", ":", "/", "/", "b">>), Undef, Undef),
     NonObject("num", <<"7">>),
     NonObject("null", <<>>)}

RECURSIVE SeqsUpTo(_, _)
SeqsUpTo(S, n) ==
    IF n = 0 THEN {<<>>}
    ELSE SeqsUpTo(S, n - 1) \cup
         {Append(q, x) : q \in {r \in SeqsUpTo(S, n - 1) : Len(r) = n - 1}, x \in S}

Val(tag, chars, elems) == [t |-> tag, s |-> chars, a |-> elems]

\* resp.data: a parsed JSON object, null, or the text of a body that is not JSON
NewsData(tag, chars, totalResults, articles) ==
    [t |-> tag, s |-> chars, totalResults |-> totalResults, articles |-> articles]

NewsBodies ==
    {NewsData("null", <<>>, Undef, Val("undef", <<>>, <<>>)),
     NewsData("str", <<>>, Undef, Val("undef", <<>>, <<>>)),
     NewsData("str", <<"<", "h", "t", "m", "l", ">">>, Undef, Val("undef", <<>>, <<>>))} \cup
    {NewsData("obj", <<>>, tr, ar) :
        tr \in {Undef, Num(<<"2">>)},
        ar \in {Val("undef", <<>>, <<>>), Val("null", <<>>, <<>>),
                Val("str", <<"n", "o", "n", "e">>, <<>>), Val("obj", <<>>, <<>>)} \cup
               {Val("arr", <<>>, l) : l \in SeqsUpTo(SampleRecords, MaxArticles)}} \cup
    {NewsData("obj", <<>>, Num(<<"1">>), Val("arr", <<>>, <<r>>)) : r \in UpstreamRecords}

NewsOutcomes ==
    {[kind |-> "throw", cause |-> c, data |-> NewsData("undef", <<>>, Undef, Val("undef", <<>>, <<>>))] :
        c \in {"network", "status"}} \cup
    {[kind |-> "data", cause |-> "", data |-> d] : d \in NewsBodies}

\* faulty variant: author defaults to the empty string like the text fields
normalizeArticleAuthorEmpty(a) ==
    [title |-> Or(a.title, Str(<<>>)),
     source |-> Or(IF a.source.t = "obj" THEN a.source.name ELSE Undef, Str(<<"U", "n", "k", "n", "o", "w", "n">>)),
     author |-> Or(a.author, Str(<<>>)),
     description |-> Or(a.description, Str(<<>>)),
     content |-> Or(a.content, Str(<<>>)),
     url |-> a.url,
     urlToImage |-> Or(a.urlToImage, Null),
     publishedAt |-> Or(a.publishedAt, Str(<<>>))]

\* line 28: a.source?.name is undefined unless a.source is an object with a name
SourceName(source) == IF source.t = "obj" THEN source.name ELSE Undef

\* lines 25-36
normalizeArticle(a) ==
    [title |-> Or(a.title, Str(<<>>)),
     source |-> Or(SourceName(a.source), Str(<<"U", "n", "k", "n", "o", "w", "n">>)),
     author |-> Or(a.author, Null),
     description |-> Or(a.description, Str(<<>>)),
     content |-> Or(a.content, Str(<<>>)),
     url |-> a.url,
     urlToImage |-> Or(a.urlToImage, Null),
     publishedAt |-> Or(a.publishedAt, Str(<<>>))]

\* reading a property of null or undefined throws a TypeError
PropertyReadThrows(v) == v.t \in {"null", "undef"}

\* faulty variant: the articles value is used as it comes, without || []
ArticlesNoDefault(data) == data.articles

\* line 86: (resp.data.articles || []), the list that .map is called on
ArticlesOrEmpty(data) ==
    IF Falsy(data.articles) THEN Val("arr", <<>>, <<>>) ELSE data.articles

\* lines 86-88 throw: data is null, articles is not an array, or a record is null
NewsBodyThrows(data) ==
    \/ PropertyReadThrows(data)
    \/ ArticlesOrEmpty(data).t # "arr"
    \/ \E i \in 1..Len(ArticlesOrEmpty(data).a) :
          PropertyReadThrows(ArticlesOrEmpty(data).a[i])

\* faulty variant: a record whose url already occurred earlier in the list is dropped
NewsBodyDedup(data) ==
    LET list == ArticlesOrEmpty(data).a
        first == SelectSeq([i \in 1..Len(list) |-> i],
                           LAMBDA i : \A j \in 1..(i - 1) : list[j].url # list[i].url)
    IN [kind |-> "news",
        totalResults |-> Or(data.totalResults, Num(<<"0">>)),
        articles |-> [i \in 1..Len(first) |-> JsonObject(normalizeArticle(list[first[i]]))]]

\* lines 86-88: the body of the 200 response
NewsBody(data) ==
    [kind |-> "news",
     totalResults |-> Or(data.totalResults, Num(<<"0">>)),
     articles |-> [i \in 1..Len(ArticlesOrEmpty(data).a) |->
                     JsonObject(normalizeArticle(ArticlesOrEmpty(data).a[i]))]]

\* faulty variant: a failed upstream call is issued once more instead of being answered
NewsUpstreamSettlesRetry(outcome) ==
    /\ pc = "awaitNews"
    /\ IF outcome.kind = "throw"
       THEN /\ calls' = Append(calls, calls[1])
            /\ UNCHANGED <<upstream, responses, pc>>
       ELSE /\ upstream' = outcome
            /\ responses' =
                  IF NewsBodyThrows(outcome.data)
                  THEN Append(responses, ErrorResponse(FetchFailed))
                  ELSE Append(responses, [status |-> 200, body |-> NewsBody(outcome.data)])
            /\ pc' = "done"
            /\ UNCHANGED calls
    /\ UNCHANGED <<env, req, frontendVars>>

\* lines 85-92: the awaited upstream call settles and the handler answers
NewsUpstreamSettles(outcome) ==
    /\ pc = "awaitNews"
    /\ upstream' = outcome
    /\ responses' =
          IF outcome.kind = "throw" \/ NewsBodyThrows(outcome.data)
          THEN Append(responses, ErrorResponse(FetchFailed))
          ELSE Append(responses, [status |-> 200, body |-> NewsBody(outcome.data)])
    /\ pc' = "done"
    /\ UNCHANGED <<env, req, calls, frontendVars>>

NoRequest == [endpoint |-> "none"]

\* the handler has returned; the server waits for the next request
Finish ==
    /\ pc = "done"
    /\ pc' = "idle"
    /\ req' = NoRequest
    /\ calls' = <<>>
    /\ upstream' = NoUpstream
    /\ responses' = <<>>
    /\ UNCHANGED <<env, frontendVars>>

\* ----------------------------------------------------- POST /api/ai/enrich
SummaryMax == 900
TakeawayCount == 3
ProviderMissing == "AI provider not configured. Set AI_PROVIDER=openai and OPENAI_API_KEY in .env"
EnrichFailed == "Failed to enrich article"
\* the fixed instruction text before and after the article text (lines 113-124)
PromptHead == "You are an assistant that analyzes news articles. ... Article:"
PromptTail == "Respond ONLY with valid JSON (no backticks, no extra text)."

BodyFields ==
    [title : {Undef, Str(<<"H", "i">>)}, description : {Str(<<>>), Str(<<"D", "e">>)},
     content : {Str(<<"C", "o">>)}, url : {Undef, Str(<<"h", "t", "t", "p", ":", "/", "/", "a">>)}]

RECURSIVE Join(_, _)
\* Array.prototype.join
Join(parts, sep) ==
    IF Len(parts) = 0 THEN <<>>
    ELSE IF Len(parts) = 1 THEN parts[1]
    ELSE parts[1] \o sep \o Join(Tail(parts), sep)

\* Array.prototype.filter(Boolean)
FilterTruthy(vals) == SelectSeq(vals, LAMBDA v : ~Falsy(v))

\* lines 102 and 111: the text blob embedded in the prompt
ArticleText(body) ==
    LET fields == <<Default(body.title, Str(<<>>)),
                    Default(body.description, Str(<<>>)),
                    Default(body.content, Str(<<>>))>>
        kept == FilterTruthy(fields)
    IN Join([i \in 1..Len(kept) |-> kept[i].s], <<"\n", "\n">>)

\* lines 126-133: the single completion request
CompletionCall(body) ==
    [model |-> "gpt-4o-mini", temperature |-> "0.3",
     messages |-> <<[role |-> "system", content |-> "You are a helpful news assistant."],
                    [role |-> "user",
                     content |-> [head |-> PromptHead, article |-> ArticleText(body),
                                  tail |-> PromptTail]]>>]

\* lines 100-126: the handler up to its first response or to the await
EnrichRequest(body) ==
    /\ pc = "idle"
    /\ req' = [endpoint |-> "enrich", body |-> body]
    /\ upstream' = NoUpstream
    /\ IF AI_PROVIDER # Str(<<"o", "p", "e", "n", "a", "i">>) \/ openaiClient = Null
       THEN /\ responses' = <<ErrorResponse(ProviderMissing)>>
            /\ calls' = <<>>
            /\ pc' = "done"
       ELSE /\ calls' = <<CompletionCall(body)>>
            /\ responses' = <<>>
            /\ pc' = "awaitAI"
    /\ UNCHANGED <<env, frontendVars>>

\* ---- JSON values a completion can carry
NoFields ==
    [summary100 |-> Val("undef", <<>>, <<>>), sentiment |-> Val("undef", <<>>, <<>>),
     takeaways |-> Val("undef", <<>>, <<>>)]

\* a parsed JSON document: f holds the three fields of an object that the handler reads
Top(tag, chars, elems, fields) == [t |-> tag, s |-> chars, a |-> elems, f |-> fields]
JObject(fields) == Top("obj", <<>>, <<>>, fields)

Letters == <<"a", "b", "c", "d", "e", "f", "g", "h">>
Repeat(c, n) == [i \in 1..n |-> c]
Strings(n) == [i \in 1..n |-> Str(<<Letters[i]>>)]

Positive == <<"P", "o", "s", "i", "t", "i", "v", "e">>
Negative == <<"N", "e", "g", "a", "t", "i", "v", "e">>
Neutral == <<"N", "e", "u", "t", "r", "a", "l">>

LongSummaryValues ==
    {Val("str", Repeat("x", SummaryMax), <<>>), Val("str", Repeat("y", SummaryMax + 1), <<>>)}

SummaryValues ==
    {Val("undef", <<>>, <<>>), Val("null", <<>>, <<>>), Val("str", <<"S", "h", "o", "r", "t", ".">>, <<>>),
     Val("num", <<"0">>, <<>>), Val("num", <<"7">>, <<>>), Val("bool", <<"t", "r", "u", "e">>, <<>>),
     Val("obj", <<>>, <<>>), Val("arr", <<>>, <<Str(<<"a">>), Null, Num(<<"7">>)>>)}

SentimentValues ==
    {Val("undef", <<>>, <<>>), Val("str", Positive, <<>>), Val("str", Negative, <<>>),
     Val("str", Neutral, <<>>), Val("str", <<"A", "n", "g", "r", "y">>, <<>>), Val("str", <<"p", "o", "s", "i", "t", "i", "v", "e">>, <<>>),
     Val("num", <<"1">>, <<>>)}

TakeawayValues ==
    {Val("undef", <<>>, <<>>), Val("null", <<>>, <<>>), Val("str", <<>>, <<>>),
     Val("str", <<"a", "b">>, <<>>), Val("str", <<"a", "b", "c", "d", "e", "f">>, <<>>), Val("num", <<"5">>, <<>>),
     Val("bool", <<"t", "r", "u", "e">>, <<>>), Val("obj", <<>>, <<>>),
     Val("arr", <<>>, <<Num(<<"1">>), Num(<<"2">>), Num(<<"3">>)>>),
     Val("arr", <<>>, <<Null, Str(<<"a">>)>>),
     Val("arr", <<>>, <<EmptyObj, Str(<<"a">>), Num(<<"2">>), Str(<<"b">>)>>)} \cup
    {Val("arr", <<>>, Strings(n)) : n \in 0..MaxTakeaways}

JsonDocuments ==
    {Top("null", <<>>, <<>>, NoFields), Top("num", <<"5">>, <<>>, NoFields),
     Top("str", <<"o", "k">>, <<>>, NoFields), Top("bool", <<"t", "r", "u", "e">>, <<>>, NoFields),
     Top("arr", <<>>, <<>>, NoFields), Top("arr", <<>>, Strings(2), NoFields)} \cup
    {JObject(f) : f \in [summary100 : SummaryValues, sentiment : SentimentValues,
                          takeaways : TakeawayValues]} \cup
    {JObject(f) : f \in [summary100 : LongSummaryValues,
                          sentiment : {Val("str", Positive, <<>>)},
                          takeaways : {Val("arr", <<>>, Strings(TakeawayCount))}]}

\* the completion text as a sequence of chunks: white space, one JSON document, or
\* any text that is not part of a JSON document
Ws == [c |-> "ws", v |-> Top("undef", <<>>, <<>>, NoFields)]
Junk == [c |-> "junk", v |-> Top("undef", <<>>, <<>>, NoFields)]
Doc(v) == [c |-> "doc", v |-> v]

\* completion.choices?.[0]?.message?.content
Content(tag, chunks) == [t |-> tag, chunks |-> chunks]

CompletionContents ==
    {Content("undef", <<>>), Content("null", <<>>), Content("str", <<>>),
     Content("str", <<Ws>>), Content("str", <<Junk>>), Content("str", <<Ws, Junk, Ws>>),
     Content("str", <<Doc(JObject(NoFields)), Ws, Junk>>),
     Content("str", <<Junk, Doc(JObject(NoFields)), Junk>>)} \cup
    {Content("str", <<Doc(v)>>) : v \in JsonDocuments} \cup
    {Content("str", <<Ws, Doc(v), Ws>>) : v \in JsonDocuments}

CompletionOutcomes ==
    {[kind |-> "throw", cause |-> c, content |-> Content("undef", <<>>)] :
        c \in {"network", "status"}} \cup
    {[kind |-> "returned", cause |-> "", content |-> c] : c \in CompletionContents}

RECURSIVE TrimStart(_)
TrimStart(chunks) ==
    IF Len(chunks) > 0 /\ Head(chunks).c = "ws" THEN TrimStart(Tail(chunks)) ELSE chunks

RECURSIVE TrimEnd(_)
TrimEnd(chunks) ==
    IF Len(chunks) > 0 /\ chunks[Len(chunks)].c = "ws"
    THEN TrimEnd(SubSeq(chunks, 1, Len(chunks) - 1))
    ELSE chunks

\* String.prototype.trim
Trim(chunks) == TrimEnd(TrimStart(chunks))

EmptyObjectText == <<Doc(JObject(NoFields))>>

\* line 135: content?.trim() || "{}"
Raw(content) ==
    IF content.t \in {"undef", "null"} \/ Trim(content.chunks) = <<>>
    THEN EmptyObjectText
    ELSE Trim(content.chunks)

\* JSON.parse throws unless the text is exactly one JSON document
ParseThrows(raw) == ~(Len(raw) = 1 /\ raw[1].c = "doc")
JSONParse(raw) == raw[1].v

\* lines 142-151
Fallback ==
    JObject([summary100 |-> Val("str", <<"S", "u", "m", "m", "a", "r", "y", " ", "n", "o", "t", " ", "a", "v", "a", "i", "l", "a", "b", "l", "e", " ", "d", "u", "e", " ", "t", "o", " ", "p", "a", "r", "s", "i", "n", "g", " ", "e", "r", "r", "o", "r", ".", " ", "P", "l", "e", "a", "s", "e", " ", "t", "r", "y", " ", "a", "g", "a", "i", "n", ".">>, <<>>),
             sentiment |-> Val("str", Neutral, <<>>),
             takeaways |-> Val("arr", <<>>,
                 <<Str(<<"S", "u", "m", "m", "a", "r", "y", " ", "f", "a", "i", "l", "e", "d", " ", "t", "o", " ", "p", "a", "r", "s", "e", ".">>),
                   Str(<<"T", "r", "y", " ", "a", "g", "a", "i", "n", " ", "o", "r", " ", "o", "p", "e", "n", " ", "t", "h", "e", " ", "a", "r", "t", "i", "c", "l", "e", ".">>),
                   Str(<<"C", "h", "e", "c", "k", " ", "n", "e", "t", "w", "o", "r", "k", "/", "A", "P", "I", " ", "l", "i", "m", "i", "t", "s", ".">>)>>)])

\* faulty variant: a parse failure leaves an empty object instead of the fallback
ParsedNoFallback(content) ==
    IF ParseThrows(Raw(content)) THEN JObject(NoFields) ELSE JSONParse(Raw(content))

\* lines 137-152
Parsed(content) ==
    IF ParseThrows(Raw(content)) THEN Fallback ELSE JSONParse(Raw(content))

\* String(v) for the element of an array that is being joined
ElementString(e) ==
    CASE e.t \in {"undef", "null"} -> <<>>
      [] e.t = "obj" -> <<"[", "o", "b", "j", "e", "c", "t", " ", "O", "b", "j", "e", "c", "t", "]">>
      [] OTHER -> e.s

\* String(v)
JsString(v) ==
    CASE v.t = "undef" -> <<"u", "n", "d", "e", "f", "i", "n", "e", "d">>
      [] v.t = "null" -> <<"n", "u", "l", "l">>
      [] v.t = "obj" -> <<"[", "o", "b", "j", "e", "c", "t", " ", "O", "b", "j", "e", "c", "t", "]">>
      [] v.t = "arr" -> Join([i \in 1..Len(v.a) |-> ElementString(v.a[i])], <<",">>)
      [] OTHER -> v.s

\* line 155
CoerceSummary(v) ==
    Val("str", Slice(JsString(IF Falsy(v) THEN Val("str", <<>>, <<>>) ELSE v), SummaryMax), <<>>)

Allowed == {Val("str", Positive, <<>>), Val("str", Negative, <<>>), Val("str", Neutral, <<>>)}

\* lines 156-157
CoerceSentiment(v) == IF v \notin Allowed THEN Val("str", Neutral, <<>>) ELSE v

\* line 158
TakeawaysAccepted(v) == v.t = "arr" /\ Len(v.a) = TakeawayCount

\* lines 159-162 call .slice on a value that has none
TakeawaysThrow(v) == ~TakeawaysAccepted(v) /\ ~Falsy(v) /\ v.t \notin {"arr", "str"}

Blanks == [i \in 1..TakeawayCount |-> Str(<<>>)]

\* lines 158-163; on a string, slice and concat are the String methods
CoerceTakeaways(v) ==
    IF TakeawaysAccepted(v) THEN v
    ELSE IF Falsy(v) THEN Val("arr", <<>>, Slice(Slice(<<>>, TakeawayCount) \o Blanks, TakeawayCount))
    ELSE IF v.t = "str"
         THEN Val("str", Slice(Slice(v.s, TakeawayCount) \o JsString(Val("arr", <<>>, Blanks)),
                               TakeawayCount), <<>>)
         ELSE Val("arr", <<>>, Slice(Slice(v.a, TakeawayCount) \o Blanks, TakeawayCount))

\* in a module (strict mode) setting a property of null or of a primitive throws
PropertyWriteThrows(v) == v.t \notin {"obj", "arr"}

\* lines 155-163 throw a TypeError
CoerceThrows(parsed) == PropertyWriteThrows(parsed) \/ TakeawaysThrow(parsed.f.takeaways)

\* lines 155-165: the value res.json serializes; the named properties set on an
\* array are not part of its JSON text
Coerced(parsed) ==
    IF parsed.t = "arr" THEN parsed
    ELSE [parsed EXCEPT !.f = [summary100 |-> CoerceSummary(parsed.f.summary100),
                               sentiment |-> CoerceSentiment(parsed.f.sentiment),
                               takeaways |-> CoerceTakeaways(parsed.f.takeaways)]]

\* lines 126-169: the awaited completion settles and the handler answers
EnrichCompletionSettles(outcome) ==
    /\ pc = "awaitAI"
    /\ upstream' = outcome
    /\ responses' =
          IF outcome.kind = "throw" \/ CoerceThrows(Parsed(outcome.content))
          THEN Append(responses, ErrorResponse(EnrichFailed))
          ELSE Append(responses, [status |-> 200,
                                  body |-> [kind |-> "enrich",
                                            value |-> Coerced(Parsed(outcome.content))]])
    /\ pc' = "done"
    /\ UNCHANGED <<env, req, calls, frontendVars>>

\* ------------------------------------------- App.js: loading the news list
API_BASE == "http://localhost:5000"

DefaultFilters ==
    [q |-> Str(<<>>), country |-> Str(<<>>), category |-> Str(<<>>),
     from |-> Str(<<>>), to |-> Str(<<>>), pageSize |-> Str(<<"9">>)]

\* the controls that carry a name and the values they can be given
FilterValues ==
    [q |-> {Str(<<>>), Str(<<"a", "i">>)},
     country |-> {Str(<<>>), Str(<<"u", "s">>)},
     category |-> {Str(<<>>), Str(<<"s", "c", "i", "e", "n", "c", "e">>)},
     from |-> {Str(<<>>), Str(<<"2", "0", "2", "4", "-", "0", "1", "-", "0", "1">>)},
     to |-> {Str(<<>>), Str(<<"2", "0", "2", "4", "-", "0", "2", "-", "0", "1">>)}]

\* what the backend can answer: a list of articles (by url) or an error status
ArticleListsShown == {<<>>, <<"http://a">>, <<"http://b", "http://a">>}

\* lines 23-29
RequestParams(f) == JsonObject([k \in DOMAIN f |-> IF Falsy(f[k]) THEN Undef ELSE f[k]])

\* lines 20-31: fetchNews up to the await, with the filters of the render f
StartFetch(f) ==
    /\ issued < MaxFetches
    /\ loading' = TRUE
    /\ issued' = issued + 1
    /\ pending' = pending \cup {[id |-> issued + 1, url |-> API_BASE,
                                  params |-> RequestParams(f)]}
    /\ UNCHANGED <<news, settled>>

\* lines 41-44: the effect of the first render
Mount ==
    /\ ~mounted
    /\ mounted' = TRUE
    /\ StartFetch(filters)
    /\ UNCHANGED <<filters, backendVars>>

\* lines 46-47, and the effect that runs because fetchNews changed with filters
handleChange(name, value) ==
    /\ mounted
    /\ value # filters[name]
    /\ filters' = [filters EXCEPT ![name] = value]
    /\ StartFetch(filters')
    /\ UNCHANGED <<mounted, backendVars>>

\* lines 49-50, and the same effect: the new filters object is never the old one
handleReset ==
    /\ mounted
    /\ filters' = DefaultFilters
    /\ StartFetch(filters')
    /\ UNCHANGED <<mounted, backendVars>>

\* line 145: the Apply button calls fetchNews of the current render
Apply ==
    /\ mounted
    /\ StartFetch(filters)
    /\ UNCHANGED <<filters, mounted, backendVars>>

\* lines 31-32 and 36-38: a request resolves
FetchResolves(r, articles) ==
    /\ r \in pending
    /\ news' = articles
    /\ loading' = FALSE
    /\ pending' = pending \ {r}
    /\ settled' = settled \cup {[id |-> r.id, shown |-> articles]}
    /\ UNCHANGED <<filters, mounted, issued, backendVars>>

\* lines 33-38: a request fails
FetchRejects(r) ==
    /\ r \in pending
    /\ news' = <<>>
    /\ loading' = FALSE
    /\ pending' = pending \ {r}
    /\ settled' = settled \cup {[id |-> r.id, shown |-> <<>>]}
    /\ UNCHANGED <<filters, mounted, issued, backendVars>>

\* lines 7-18: the state of the first render
InitFrontend ==
    /\ filters = DefaultFilters
    /\ news = <<>>
    /\ loading = FALSE
    /\ mounted = FALSE
    /\ pending = {}
    /\ issued = 0
    /\ settled = {}

Init ==
    /\ env \in [NEWS_API_KEY : EnvNewsKeys, AI_PROVIDER : EnvProviders,
                OPENAI_API_KEY : EnvOpenAIKeys]
    /\ pc = "idle"
    /\ req = NoRequest
    /\ calls = <<>>
    /\ upstream = NoUpstream
    /\ responses = <<>>
    /\ InitFrontend

Queries ==
    [q : QueryQ, country : QueryCountry, category : QueryCategory, from : QueryFrom,
     to : QueryTo, pageSize : QueryPageSize, page : {Undef}, sortBy : QuerySortBy]

Next ==
    \/ pc = "idle" /\ \E query \in Queries : NewsRequest(query)
    \/ pc = "awaitNews" /\ \E outcome \in NewsOutcomes : NewsUpstreamSettles(outcome)
    \/ pc = "idle" /\ \E body \in BodyFields : EnrichRequest(body)
    \/ pc = "awaitAI" /\ \E outcome \in CompletionOutcomes : EnrichCompletionSettles(outcome)
    \/ Finish

Spec == Init /\ [][Next]_vars

\* the frontend alone, against a backend whose answers are any of its answers
InitUI ==
    /\ env = [NEWS_API_KEY |-> Str(<<"k", "1">>), AI_PROVIDER |-> Undef,
              OPENAI_API_KEY |-> Str(<<"s", "k">>)]
    /\ pc = "idle"
    /\ req = NoRequest
    /\ calls = <<>>
    /\ upstream = NoUpstream
    /\ responses = <<>>
    /\ InitFrontend

NextUI ==
    \/ Mount
    \/ \E name \in DOMAIN FilterValues : \E value \in FilterValues[name] :
          handleChange(name, value)
    \/ handleReset
    \/ Apply
    \/ \E r \in pending : \E articles \in ArticleListsShown : FetchResolves(r, articles)
    \/ \E r \in pending : FetchRejects(r)

SpecUI == InitUI /\ [][NextUI]_vars

\* ================================================================== claims
NonEmpty(v) == v.t = "str" /\ v.s # <<>>
NewsAnswered == pc = "done" /\ req.endpoint = "news"
EnrichAnswered == pc = "done" /\ req.endpoint = "enrich"
Has(obj, key) == key \in DOMAIN obj

\* the EnrichmentResult shape of the data model
EnrichmentShape(body) ==
    /\ body.kind = "enrich"
    /\ body.value.t = "obj"
    /\ body.value.f.summary100.t = "str"
    /\ Len(body.value.f.summary100.s) <= 900
    /\ body.value.f.sentiment \in
          {Val("str", <<"P", "o", "s", "i", "t", "i", "v", "e">>, <<>>), Val("str", <<"N", "e", "g", "a", "t", "i", "v", "e">>, <<>>),
           Val("str", <<"N", "e", "u", "t", "r", "a", "l">>, <<>>)}
    /\ body.value.f.takeaways.t = "arr"
    /\ Len(body.value.f.takeaways.a) = 3
    /\ \A i \in 1..Len(body.value.f.takeaways.a) : body.value.f.takeaways.a[i].t = "str"

\* C1: whenever the provider is configured and the completion call returns, with any
\* content, POST /api/ai/enrich answers 200 with a body of the EnrichmentResult shape.
C1_EnrichAlwaysShaped ==
    (EnrichAnswered /\ upstream.kind = "returned") =>
        /\ Len(responses) = 1
        /\ responses[1].status = 200
        /\ EnrichmentShape(responses[1].body)

\* C2: with the configuration of an endpoint missing, every request to it is answered
\* with the 500 configuration error of that endpoint and no upstream call is made.
C2_ConfigErrorNoUpstream ==
    /\ (req.endpoint = "news" /\ env.NEWS_API_KEY.t = "undef") =>
          /\ pc = "done"
          /\ calls = <<>>
          /\ responses = <<[status |-> 500,
                            body |-> [kind |-> "error", error |-> NewsKeyMissing]]>>
    /\ (req.endpoint = "enrich" /\
          (AI_PROVIDER # Str(<<"o", "p", "e", "n", "a", "i">>) \/ env.OPENAI_API_KEY.t = "undef")) =>
          /\ pc = "done"
          /\ calls = <<>>
          /\ responses = <<[status |-> 500,
                            body |-> [kind |-> "error", error |-> ProviderMissing]]>>

C2_Witness ==
    /\ EnrichAnswered
    /\ env.AI_PROVIDER = Str(<<"a", "z", "u", "r", "e">>)
    /\ env.OPENAI_API_KEY.t = "str"
    /\ NonEmpty(req.body.title)
    /\ calls = <<>>
    /\ Len(responses) = 1 /\ responses[1].status = 500

\* C3: GET /api/news chooses headlines mode exactly when country or category is
\* non-empty, forwarding country, the lower-cased category and q only when non-empty
\* and never from, to or sortBy; otherwise it chooses search mode, forwarding q
\* unchanged when non-empty and "news" when empty.
C3_ModeSelection ==
    (req.endpoint = "news" /\ calls # <<>>) =>
        LET query == req.query
            params == calls[1].params
            headlines == NonEmpty(query.country) \/ NonEmpty(query.category)
        IN /\ Len(calls) = 1
           /\ calls[1].url = IF headlines THEN HeadlinesUrl ELSE EverythingUrl
           /\ headlines =>
                /\ Has(params, "country") <=> NonEmpty(query.country)
                /\ Has(params, "country") => params.country = query.country
                /\ Has(params, "category") <=> NonEmpty(query.category)
                /\ Has(params, "category") =>
                      params.category = Str(toLowerCase(query.category.s))
                /\ query.category = Str(<<"T", "E", "C", "H">>) => params.category = Str(<<"t", "e", "c", "h">>)
                /\ Has(params, "q") <=> NonEmpty(query.q)
                /\ Has(params, "q") => params.q = query.q
                /\ ~Has(params, "from") /\ ~Has(params, "to") /\ ~Has(params, "sortBy")
           /\ ~headlines =>
                /\ Has(params, "q")
                /\ params.q = IF NonEmpty(query.q) THEN query.q ELSE Str(<<"n", "e", "w", "s">>)
                /\ NonEmpty(params.q)

C3_Witness ==
    /\ pc = "awaitNews"
    /\ req.query.q = Str(<<>>)
    /\ req.query.country.t = "undef" /\ req.query.category.t = "undef"
    /\ calls[1].url = EverythingUrl
    /\ calls[1].params.q = Str(<<"n", "e", "w", "s">>)

\* a response body that is not an object or has no articles list
MalformedBody(data) == data.t # "obj" \/ data.articles.t # "arr"

C6_TakeawaysCoerced ==
    (EnrichAnswered /\ upstream.kind = "returned" /\ ~ParseThrows(Raw(upstream.content))
       /\ JSONParse(Raw(upstream.content)).t = "obj") =>
        LET given == JSONParse(Raw(upstream.content)).f.takeaways
            original == IF given.t = "arr" THEN given.a ELSE <<>>
            kept == IF Len(original) < 3 THEN Len(original) ELSE 3
        IN /\ Len(responses) = 1
           /\ responses[1].status = 200
           /\ responses[1].body.value.f.takeaways.t = "arr"
           /\ responses[1].body.value.f.takeaways.a =
                [i \in 1..3 |-> IF i <= kept THEN original[i] ELSE Str(<<>>)]

ArticleKeys ==
    {"title", "source", "author", "description", "content", "url", "urlToImage",
     "publishedAt"}

NewsSucceeded ==
    NewsAnswered /\ Len(responses) = 1 /\ responses[1].status = 200

\* the upstream list behind a successful answer
UpstreamList ==
    IF upstream.data.articles.t = "arr" THEN upstream.data.articles.a ELSE <<>>

\* C7 as stated: every returned Article has all eight keys; title, source,
\* description and content are "" and author and urlToImage are null when absent.
C7_AllKeysEmptyDefaults ==
    (NewsSucceeded /\ Len(UpstreamList) = Len(responses[1].body.articles)) =>
        \A i \in 1..Len(UpstreamList) :
            LET raw == UpstreamList[i]
                art == responses[1].body.articles[i]
            IN /\ DOMAIN art = ArticleKeys
               /\ raw.title.t = "undef" => art.title = Str(<<>>)
               /\ SourceName(raw.source).t = "undef" => art.source = Str(<<>>)
               /\ raw.description.t = "undef" => art.description = Str(<<>>)
               /\ raw.content.t = "undef" => art.content = Str(<<>>)
               /\ raw.author.t = "undef" => art.author = Null
               /\ raw.urlToImage.t = "undef" => art.urlToImage = Null

\* C7 as amended: every returned Article has the seven keys other than url, and url
\* exactly when the upstream record has one; title, description, content and
\* publishedAt are "" when absent, source is "Unknown" when the record has no source
\* name, author and urlToImage are null when absent.
C7_KeysAndDefaults ==
    NewsSucceeded =>
        /\ Len(UpstreamList) = Len(responses[1].body.articles)
        /\ \A i \in 1..Len(UpstreamList) :
            LET raw == UpstreamList[i]
                art == responses[1].body.articles[i]
            IN /\ ArticleKeys \ {"url"} \subseteq DOMAIN art
               /\ DOMAIN art \subseteq ArticleKeys
               /\ Has(art, "url") <=> raw.url.t # "undef"
               /\ raw.title.t = "undef" => art.title = Str(<<>>)
               /\ raw.description.t = "undef" => art.description = Str(<<>>)
               /\ raw.content.t = "undef" => art.content = Str(<<>>)
               /\ raw.publishedAt.t = "undef" => art.publishedAt = Str(<<>>)
               /\ (raw.source.t = "undef" \/ raw.source.name.t = "undef")
                     => art.source = Str(<<"U", "n", "k", "n", "o", "w", "n">>)
               /\ raw.author.t = "undef" => art.author = Null
               /\ raw.urlToImage.t = "undef" => art.urlToImage = Null

C7_Witness ==
    /\ NewsSucceeded
    /\ Len(UpstreamList) = 1
    /\ UpstreamList[1].t = "obj"
    /\ \A k \in ArticleKeys \ {"source"} : UpstreamList[1][k].t = "undef"
    /\ UpstreamList[1].source.t = "undef"
    /\ responses[1].body.articles[1].source = Str(<<"U", "n", "k", "n", "o", "w", "n">>)

\* C8: every request makes at most one upstream call and gets exactly one response,
\* sent only after that call has settled, or without any call on a configuration error.
C8_OneCallOneResponse ==
    /\ Len(calls) <= 1
    /\ Len(responses) <= 1
    /\ pc = "done" => Len(responses) = 1
    /\ pc \in {"awaitNews", "awaitAI"} =>
          Len(calls) = 1 /\ responses = <<>> /\ upstream.kind = "none"
    /\ responses # <<>> =>
          \/ (calls = <<>> /\ upstream.kind = "none" /\ responses[1].status = 500)
          \/ (Len(calls) = 1 /\ upstream.kind # "none")

C8_Witness ==
    /\ pc = "done"
    /\ upstream.kind = "throw"
    /\ Len(calls) = 1
    /\ Len(responses) = 1

\* C9: on a successful GET /api/news the returned list has the length and the order of
\* the upstream list, and the i-th url is the i-th upstream url, duplicates included.
C9_ElementwiseImage ==
    NewsSucceeded =>
        /\ Len(responses[1].body.articles) = Len(UpstreamList)
        /\ \A i \in 1..Len(UpstreamList) :
              LET art == responses[1].body.articles[i]
              IN IF UpstreamList[i].url.t = "undef"
                 THEN ~Has(art, "url")
                 ELSE Has(art, "url") /\ art.url = UpstreamList[i].url

C9_Witness ==
    /\ NewsSucceeded
    /\ Len(UpstreamList) = 2
    /\ UpstreamList[1] # UpstreamList[2]
    /\ UpstreamList[1].url = UpstreamList[2].url
    /\ UpstreamList[1].url.t = "str"
    /\ responses[1].body.articles[1].url = responses[1].body.articles[2].url

\* C10: while any fetchNews request is in flight the loading flag is true, and once all
\* have settled the displayed list is the result of the most recently issued request.
C10_LatestRequestWins ==
    /\ pending # {} => loading
    /\ (pending = {} /\ issued > 0) =>
          \E r \in settled : r.id = issued /\ news = r.shown

====
